---------------------------- MODULE Spec2Model ----------------------------
(***************************************************************************)
(* A model of the RCON client of rcon.go: the packet codec (newPacket,     *)
(* Packet.compile, the read path of Client.send) at the level of bytes,    *)
(* and the Client session (Connect, Authorize, Execute, send) as a state   *)
(* machine whose steps are the operations send performs on the transport.  *)
(* The remote server and the TCP connection are the environment.           *)
(***************************************************************************)
EXTENDS Integers, Sequences, FiniteSets, TLC

(***************************************************************************)
(* Bounds of the model.                                                    *)
(***************************************************************************)
\* Calls of Authorize/Execute made on one session.
MaxCalls == 3
\* Transports one session opens with Connect.
MaxConnects == 1
\* Packets the server sends to one session.
MaxPkts == 2
\* Length of the bodies the codec specification draws.
MaxLen == 3
\* Empty SERVERDATA_RESPONSE_VALUE packets a server puts before its answer.
MaxSpurious == 2
\* Calls made on a session that two callers share.
MaxTurns == 2

(***************************************************************************)
(* Program constants (rcon.go:15-31).                                      *)
(***************************************************************************)
packetPaddingSize == 2
packetHeaderSize == 8
exec == 2
auth == 3
authResponse == 2
responseValue == 0
\* terminationSequence = "\x00": the cutset handed to strings.TrimRight.
terminationSequence == {0}

\* The callers that may drive a session; Spec serializes them.
Callers == {1, 2}
\* The challenges crypto/rand may produce, sampled: -1 is the id the Valve
\* protocol uses to reject an authorization.
Challenges == {-1, 7}
\* The passwords handed to Authorize and the commands handed to Execute
\* (as bytes).
Passwords == {<<97>>}
Commands == {<<>>, <<97>>}

(***************************************************************************)
(* int32 arithmetic and the little-endian encoding of encoding/binary.     *)
(***************************************************************************)
MinInt32 == -2147483647 - 1

\* binary.Write(&buffer, binary.LittleEndian, &x) for an int32 x.
LE32(x) ==
    << x % 256, (x \div 256) % 256, (x \div 65536) % 256,
       (x \div 16777216) % 256 >>

\* The decoding of an int32 with the bytes taken in the other order.
Int32BigEndian(b) ==
    b[4] + 256 * b[3] + 65536 * b[2]
      + 16777216 * (IF b[1] >= 128 THEN b[1] - 256 ELSE b[1])

\* binary.Read(conn, binary.LittleEndian, &x) for an int32 x, from 4 bytes.
Int32(b) ==
    b[1] + 256 * b[2] + 65536 * b[3]
      + 16777216 * (IF b[4] >= 128 THEN b[4] - 256 ELSE b[4])

\* The length of a body with the size validated: none below the header's.
BodyLenValidated(size) ==
    IF size < packetHeaderSize THEN 0 ELSE size - packetHeaderSize

\* header.size - packetHeaderSize in int32 (wrapping).
BodyLen(size) ==
    IF size >= MinInt32 + packetHeaderSize
    THEN size - packetHeaderSize
    ELSE (size + 2147483647) + (2147483647 - packetHeaderSize + 2)

Min(a, b) == IF a < b THEN a ELSE b

Take(s, n) == SubSeq(s, 1, n)
Drop(s, n) == SubSeq(s, n + 1, Len(s))

(***************************************************************************)
(* The codec.                                                              *)
(***************************************************************************)
Header(size, challenge, typ) ==
    [size |-> size, challenge |-> challenge, headerType |-> typ]

ZeroHeader == Header(0, 0, 0)

\* newPacket with the padding left out of the size.
newPacketUnpadded(challenge, typ, body) ==
    [Header |-> Header(Len(body) + packetHeaderSize, challenge, typ),
     Body |-> body]

\* newPacket: size = len(body) + header size + padding size.
newPacket(challenge, typ, body) ==
    [Header |-> Header(Len(body) + (packetHeaderSize + packetPaddingSize),
                       challenge, typ),
     Body |-> body]

\* Packet.compile: size, challenge, type, the body, the padding.
compile(packet) ==
    LE32(packet.Header.size) \o LE32(packet.Header.challenge)
      \o LE32(packet.Header.headerType) \o packet.Body
      \o [i \in 1..packetPaddingSize |-> 0]

\* A trim that removes one trailing byte of the cutset only.
TrimRightOnce(s, cutset) ==
    IF s # <<>> /\ s[Len(s)] \in cutset THEN SubSeq(s, 1, Len(s) - 1) ELSE s

\* strings.TrimRight(s, cutset).
RECURSIVE TrimRight(_, _)
TrimRight(s, cutset) ==
    IF s # <<>> /\ s[Len(s)] \in cutset
    THEN TrimRight(SubSeq(s, 1, Len(s) - 1), cutset)
    ELSE s

\* The response send assembles from the evaluated header and the body read.
Response(header, body) ==
    [Header |-> header, Body |-> TrimRight(body, terminationSequence)]

(***************************************************************************)
(* State.                                                                  *)
(***************************************************************************)
VARIABLES
    authorized,   \* Client.authorized
    connection,   \* Client.connection: "nil", "open", or "down" (peer gone)
    stream,       \* bytes the server sent that the client has not read
    pending,      \* requests the server received and has not answered
    sent,         \* packets the server sent to the session
    call,         \* per caller: the activation of Authorize/Execute/send
    calls,        \* calls made so far
    opened,       \* transports opened by Connect
    closed,       \* transports closed
    released      \* the caller has finished with the session

vars == << authorized, connection, stream, pending, sent, call, calls,
           opened, closed, released >>

\* A caller's activation before any call. Besides the locals and results of
\* send it records, for the properties, the call's transport operations
\* (io: the operation, the bytes asked for, the bytes and the error
\* returned), the first header decoded, the server's answer to the request
\* (reply), the bytes that were unread when the call was made (left), and
\* the error ErrInvalidChallenge of the call before it on the connection
\* (prev).
IdleCall ==
    [pc |-> "idle", op |-> "none", id |-> 0, round |-> 1, packet |-> <<>>,
     payload |-> <<>>, header |-> ZeroHeader, first |-> <<>>,
     body |-> <<>>, response |-> <<>>, err |-> "nil", result |-> "none",
     evaluated |-> FALSE, io |-> <<>>, reply |-> <<>>, clean |-> FALSE,
     left |-> <<>>, prev |-> "none"]

Init ==
    /\ authorized = FALSE
    /\ connection = "nil"
    /\ stream = <<>>
    /\ pending = <<>>
    /\ sent = 0
    /\ call = [p \in Callers |-> IdleCall]
    /\ calls = 0
    /\ opened = 0
    /\ closed = 0
    /\ released = FALSE

Quiet(p) == call[p].pc \in {"idle", "done"}


(***************************************************************************)
(* The environment: the transport and the remote server.                   *)
(***************************************************************************)
\* The ids and types the server puts in its packets, and their bodies.
Ids == Challenges
Types == {responseValue, authResponse, auth}
SrvBodies == {<<>>, <<97>>}

\* A packet as the protocol frames it: body, terminator and padding, and a
\* size that counts id, type and those bytes.
Framed(id, typ, body) ==
    [size |-> Len(body) + 10, id |-> id, typ |-> typ, body |-> body,
     data |-> body \o <<0, 0>>]

\* A packet whose size field is below the 8 bytes of id and type.
Undersized(id, typ) ==
    [size |-> 7, id |-> id, typ |-> typ, body |-> <<>>, data |-> <<0, 0>>]

\* A packet that ends with its header: the size field is 8.
Bare(id, typ) ==
    [size |-> 8, id |-> id, typ |-> typ, body |-> <<>>, data |-> <<>>]

\* A packet cut off after its header: the size field announces the two
\* bytes that do not follow.
Truncated(id, typ) ==
    [size |-> 10, id |-> id, typ |-> typ, body |-> <<>>, data |-> <<>>]

\* The packets the server sends: empty ones of every id and type, response
\* values with a text, an undersized one, which is malformed whether it is
\* evaluated or taken for the spurious packet of an authorization, a bare
\* one, and a truncated one.
SrvPackets ==
    {Framed(id, typ, <<>>) : id \in Ids, typ \in Types}
      \cup {Framed(id, responseValue, body) : id \in Ids, body \in SrvBodies}
      \cup {Undersized(7, responseValue)}
      \cup {Bare(-1, authResponse)}
      \cup {Truncated(7, responseValue)}

\* The answers of n packets.
Bursts(n) == [1..n -> SrvPackets]

Wire(pkt) ==
    LE32(pkt.size) \o LE32(pkt.id) \o LE32(pkt.typ) \o pkt.data

RECURSIVE WireAll(_)
WireAll(burst) ==
    IF burst = <<>> THEN <<>> ELSE Wire(Head(burst)) \o WireAll(Tail(burst))

\* What one conn.Read(buf) with len(buf) = L can return: nothing for an empty
\* buffer, otherwise at least one and at most L of the bytes that arrived
\* (sampled: one byte, all but one, or all that can be had); end of file
\* when the peer is gone and nothing is left; no outcome (the read blocks)
\* on an open connection with nothing to read.
ReadOutcomes(L) ==
    IF L = 0 THEN {[n |-> 0, err |-> "nil"]}
    ELSE IF stream # <<>>
    THEN LET m == Min(L, Len(stream))
         IN  {[n |-> k, err |-> "nil"] : k \in {1, m - 1, m} \cap 1..m}
    ELSE IF connection = "down" THEN {[n |-> 0, err |-> "io.EOF"]}
    ELSE {}

\* What conn.Write(payload) can return: all bytes; fewer bytes and no error;
\* an error, when the peer is gone.
WriteOutcomes(payload) ==
    {[n |-> Len(payload), err |-> "nil"]}
      \cup {[n |-> k, err |-> "nil"] : k \in {0, Len(payload) - 1}}
      \cup (IF connection = "down"
            THEN {[n |-> 0, err |-> "net.OpError"]} ELSE {})

(***************************************************************************)
(* The decisions of Authorize and send, as the code takes them.            *)
(***************************************************************************)
\* The check of line 109 with the comparison of the type inverted.
UnauthorizedInverted(typ, isAuthorized) == typ = auth /\ ~isAuthorized

\* send, line 109: the request is refused before any network activity.
Unauthorized(typ, isAuthorized) == typ # auth /\ ~isAuthorized

\* The test of line 144 without its first operand: a first packet of type 0
\* is dropped whatever the request.
QuirkAnyRequest(packet, header) == header.headerType = responseValue

\* The test of line 144 without its second operand: the first packet of an
\* AUTH exchange is dropped whatever its type.
QuirkAnyType(packet, header) == packet.Header.headerType = auth

\* The test of line 144 against the wrong packet type constant.
QuirkWrongType(packet, header) ==
    packet.Header.headerType = auth /\ header.headerType = authResponse

\* send, line 144: the first header of an AUTH exchange is a spurious
\* SERVERDATA_RESPONSE_VALUE.
Quirk(packet, header) ==
    packet.Header.headerType = auth /\ header.headerType = responseValue

\* The check of line 158 skipped for packets of type 2.
ChallengeMismatchUntyped(header, packet) ==
    /\ header.challenge # packet.Header.challenge
    /\ header.headerType # authResponse

\* send, line 158.
ChallengeMismatch(header, packet) ==
    header.challenge # packet.Header.challenge

\* The check of line 129 for a count above the payload's length only.
InvalidWriteAbove(n, payload) == n > Len(payload)

\* send, line 129: the write reported another count than the payload's
\* length.
InvalidWrite(n, payload) == n # Len(payload)

\* The check of line 169 for a count above the buffer's length only.
InvalidReadAbove(n, L) == n > L

\* send, line 169: the read reported another count than len(body).
InvalidRead(n, L) == n # L

\* Authorize setting the flag whatever the type of the response.
AuthorizeAnyType(response, err, isAuthorized) ==
    IF err = "nil"
    THEN [response |-> response, err |-> err, authorized |-> TRUE]
    ELSE [response |-> response, err |-> err, authorized |-> isAuthorized]

\* Authorize clearing the flag when the authorization fails.
AuthorizeResets(response, err, isAuthorized) ==
    IF err = "nil" /\ response[1].Header.headerType = authResponse
    THEN [response |-> response, err |-> err, authorized |-> TRUE]
    ELSE [response |-> <<>>,
          err |-> IF err = "nil" THEN "ErrFailedAuthorization" ELSE err,
          authorized |-> FALSE]

\* Authorize without line 82: the response is returned with the error.
AuthorizeKeepsResponse(response, err, isAuthorized) ==
    IF err = "nil"
    THEN IF response[1].Header.headerType = authResponse
         THEN [response |-> response, err |-> err, authorized |-> TRUE]
         ELSE [response |-> response, err |-> "ErrFailedAuthorization",
               authorized |-> isAuthorized]
    ELSE [response |-> response, err |-> err, authorized |-> isAuthorized]

\* Authorize, lines 77-87: what it returns, and the flag it leaves, given
\* what send returned.
Authorize(response, err, isAuthorized) ==
    IF err = "nil"
    THEN IF response[1].Header.headerType = authResponse
         THEN [response |-> response, err |-> err, authorized |-> TRUE]
         ELSE [response |-> <<>>, err |-> "ErrFailedAuthorization",
               authorized |-> isAuthorized]
    ELSE [response |-> response, err |-> err, authorized |-> isAuthorized]

\* Execute, line 94: send's result as it is.
Execute(response, err, isAuthorized) ==
    [response |-> response, err |-> err, authorized |-> isAuthorized]

\* send returns (response, err) to Authorize or Execute, which returns.
Return(p, c, response, err) ==
    LET r == IF c.op = "Authorize"
             THEN Authorize(response, err, authorized)
             ELSE Execute(response, err, authorized)
    IN  /\ call' = [call EXCEPT ![p] =
                      [c EXCEPT !.pc = "done", !.result = "return",
                                !.response = r.response, !.err = r.err]]
        /\ authorized' = r.authorized

\* A runtime panic unwinds the call: nothing is returned.
Panic(p, c) ==
    /\ call' = [call EXCEPT ![p] = [c EXCEPT !.pc = "done", !.result = "panic"]]
    /\ UNCHANGED authorized

(***************************************************************************)
(* The operations of the Client.                                           *)
(***************************************************************************)
\* Connect: net.Dial's connection and error are both stored; a failed dial
\* leaves the connection nil. A transport opened earlier is not closed. The
\* caller has dropped what its last call returned.
Connect(ok) ==
    /\ ~released
    /\ \A p \in Callers : Quiet(p)
    /\ IF ok
       THEN /\ opened < MaxConnects
            /\ connection' = "open"
            /\ opened' = opened + 1
       ELSE /\ connection' = "nil"
            /\ UNCHANGED opened
    /\ stream' = <<>>
    /\ pending' = <<>>
    /\ call' = [p \in Callers |-> IdleCall]
    /\ UNCHANGED << authorized, sent, calls, closed, released >>

\* ErrInvalidChallenge when the latest call on the connection ended with it.
LastErr ==
    IF \E q \in Callers :
          /\ call[q].id = calls
          /\ call[q].pc = "done"
          /\ call[q].err = "ErrInvalidChallenge"
    THEN "ErrInvalidChallenge"
    ELSE "none"

\* A call that first empties the connection of what earlier calls left.
CallDrains(p, op, command) ==
    LET typ == IF op = "Authorize" THEN auth ELSE exec
        c0 == [IdleCall EXCEPT !.op = op, !.id = calls + 1, !.left = <<>>,
                               !.prev = LastErr]
    IN  /\ ~released
        /\ Quiet(p)
        /\ calls < MaxCalls
        /\ calls' = calls + 1
        /\ stream' = <<>>
        /\ IF Unauthorized(typ, authorized)
           THEN Return(p, c0, <<>>, "ErrUnauthorizedRequest")
           ELSE \E challenge \in Challenges :
                  LET packet == newPacket(challenge, typ, command)
                  IN  /\ call' = [call EXCEPT ![p] =
                                    [c0 EXCEPT !.pc = "write",
                                               !.packet = <<packet>>,
                                               !.payload = compile(packet)]]
                      /\ UNCHANGED authorized
        /\ UNCHANGED << connection, pending, sent, opened, closed, released >>

\* Authorize(password) or Execute(command) enters send: the authorization
\* check, then the challenge, the request packet and its payload.
Call(p, op, command) ==
    LET typ == IF op = "Authorize" THEN auth ELSE exec
        c0 == [IdleCall EXCEPT !.op = op, !.id = calls + 1, !.left = stream,
                               !.prev = LastErr]
    IN  /\ ~released
        /\ Quiet(p)
        /\ calls < MaxCalls
        /\ calls' = calls + 1
        /\ IF Unauthorized(typ, authorized)
           THEN Return(p, c0, <<>>, "ErrUnauthorizedRequest")
           ELSE \E challenge \in Challenges :
                  LET packet == newPacket(challenge, typ, command)
                  IN  /\ call' = [call EXCEPT ![p] =
                                    [c0 EXCEPT !.pc = "write",
                                               !.packet = <<packet>>,
                                               !.payload = compile(packet)]]
                      /\ UNCHANGED authorized
        /\ UNCHANGED << connection, stream, pending, sent, opened, closed,
                        released >>

\* send, lines 127-132: the one write of the payload.
Write(p) ==
    LET c == call[p]
    IN  /\ c.pc = "write"
        /\ IF connection = "nil"
           THEN /\ Panic(p, c)
                /\ UNCHANGED pending
           ELSE \E w \in WriteOutcomes(c.payload) :
                  LET c1 == [c EXCEPT !.io = Append(@, <<"Write", Len(c.payload), w.n, w.err>>)]
                  IN  IF w.err # "nil"
                      THEN /\ Return(p, c1, <<>>, w.err)
                           /\ UNCHANGED pending
                      ELSE IF InvalidWrite(w.n, c.payload)
                      THEN /\ Return(p, c1, <<>>, "ErrInvalidWrite")
                           /\ UNCHANGED pending
                      ELSE /\ call' = [call EXCEPT ![p] = [c1 EXCEPT !.pc = "size"]]
                           /\ pending' = IF connection = "open"
                                         THEN Append(pending, <<p, c.id>>)
                                         ELSE pending
                           /\ UNCHANGED authorized
        /\ UNCHANGED << connection, stream, sent, calls, opened, closed,
                        released >>

\* The field a header read is followed by.
NextField(pc) == IF pc = "size" THEN "challenge" ELSE "headerType"

\* send, lines 136-142 and 149-155: one binary.Read of a header field (all
\* four bytes, or what is left and an error once the peer is gone), and
\* after the third the decisions of lines 144 and 158.
ReadHeader(p) ==
    LET c == call[p]
    IN  /\ c.pc \in {"size", "challenge", "headerType"}
        /\ IF Len(stream) >= 4
           THEN LET h  == [c.header EXCEPT ![c.pc] = Int32(Take(stream, 4))]
                    c1 == [c EXCEPT !.header = h,
                                    !.io = Append(@, <<"ReadFull", 4, 4, "nil">>)]
                    c2 == IF c.round = 1 THEN [c1 EXCEPT !.first = <<h>>] ELSE c1
                IN  /\ stream' = Drop(stream, 4)
                    /\ IF c.pc # "headerType"
                       THEN /\ call' = [call EXCEPT ![p] =
                                          [c1 EXCEPT !.pc = NextField(c.pc)]]
                            /\ UNCHANGED authorized
                       ELSE IF c.round = 1 /\ Quirk(c.packet[1], h)
                       THEN /\ call' = [call EXCEPT ![p] =
                                          [c2 EXCEPT !.pc = "discard"]]
                            /\ UNCHANGED authorized
                       ELSE IF ChallengeMismatch(h, c.packet[1])
                       THEN Return(p, [c2 EXCEPT !.evaluated = TRUE], <<>>,
                                   "ErrInvalidChallenge")
                       ELSE /\ call' = [call EXCEPT ![p] =
                                          [c2 EXCEPT !.pc = "body",
                                                     !.evaluated = TRUE]]
                            /\ UNCHANGED authorized
           ELSE LET e == IF stream = <<>> THEN "io.EOF"
                         ELSE "io.ErrUnexpectedEOF"
                IN  /\ connection = "down"
                    /\ stream' = <<>>
                    /\ Return(p, [c EXCEPT !.io = Append(@, <<"ReadFull", 4,
                                                             Len(stream), e>>)],
                              <<>>, e)
        /\ UNCHANGED << connection, pending, sent, calls, opened, closed,
                        released >>

\* A discard that checks its read as line 167-172 check the read of a body.
DiscardChecked(p) ==
    LET c == call[p]
        L == BodyLen(c.header.size)
    IN  /\ c.pc = "discard"
        /\ IF L < 0
           THEN /\ Panic(p, c)
                /\ UNCHANGED stream
           ELSE \E r \in ReadOutcomes(L) :
                  LET c1 == [c EXCEPT !.io = Append(@, <<"Read", L, r.n, r.err>>)]
                  IN  /\ stream' = Drop(stream, r.n)
                      /\ IF r.err # "nil"
                         THEN Return(p, c1, <<>>, r.err)
                         ELSE IF InvalidRead(r.n, L)
                         THEN Return(p, c1, <<>>, "ErrInvalidRead")
                         ELSE /\ call' = [call EXCEPT ![p] =
                                            [c1 EXCEPT !.pc = "size", !.round = 2]]
                              /\ UNCHANGED authorized
        /\ UNCHANGED << connection, pending, sent, calls, opened, closed,
                        released >>

\* The discard made the body of a loop: after it, a header of type 0 is
\* taken for a spurious packet again.
DiscardLoop(p) ==
    LET c == call[p]
        L == BodyLen(c.header.size)
    IN  /\ c.pc = "discard"
        /\ IF L < 0
           THEN /\ Panic(p, c)
                /\ UNCHANGED stream
           ELSE \E r \in ReadOutcomes(L) :
                  /\ stream' = Drop(stream, r.n)
                  /\ call' = [call EXCEPT ![p] =
                                [c EXCEPT !.pc = "size",
                                          !.io = Append(@, <<"Read", L, r.n, r.err>>)]]
                  /\ UNCHANGED authorized
        /\ UNCHANGED << connection, pending, sent, calls, opened, closed,
                        released >>

\* send, line 146: the buffer for the spurious packet's body and the one
\* read into it, whose result is dropped.
Discard(p) ==
    LET c == call[p]
        L == BodyLen(c.header.size)
    IN  /\ c.pc = "discard"
        /\ IF L < 0
           THEN /\ Panic(p, c)
                /\ UNCHANGED stream
           ELSE \E r \in ReadOutcomes(L) :
                  /\ stream' = Drop(stream, r.n)
                  /\ call' = [call EXCEPT ![p] =
                                [c EXCEPT !.pc = "size", !.round = 2,
                                          !.io = Append(@, <<"Read", L, r.n, r.err>>)]]
                  /\ UNCHANGED authorized
        /\ UNCHANGED << connection, pending, sent, calls, opened, closed,
                        released >>

\* send, lines 163-178: the body buffer, the one read into it, and the
\* response.
ReadBody(p) ==
    LET c == call[p]
        L == BodyLen(c.header.size)
    IN  /\ c.pc = "body"
        /\ IF L < 0
           THEN /\ Panic(p, c)
                /\ UNCHANGED stream
           ELSE \E r \in ReadOutcomes(L) :
                  LET c1 == [c EXCEPT !.body = Take(stream, r.n),
                                      !.io = Append(@, <<"Read", L, r.n, r.err>>)]
                  IN  /\ stream' = Drop(stream, r.n)
                      /\ IF r.err # "nil"
                         THEN Return(p, c1, <<>>, r.err)
                         ELSE IF InvalidRead(r.n, L)
                         THEN Return(p, c1, <<>>, "ErrInvalidRead")
                         ELSE Return(p, c1, <<Response(c.header, Take(stream, L))>>,
                                     "nil")
        /\ UNCHANGED << connection, pending, sent, calls, opened, closed,
                        released >>

\* The caller is done with the session (the tests defer c.Disconnect()).
\* Client has no method that closes the connection: nothing is closed.
Disconnect ==
    /\ ~released
    /\ opened > 0
    /\ \A p \in Callers : Quiet(p)
    /\ released' = TRUE
    /\ call' = [p \in Callers |-> IdleCall]
    /\ UNCHANGED << authorized, connection, stream, pending, sent, calls,
                    opened, closed >>

(***************************************************************************)
(* The steps of the environment.                                           *)
(***************************************************************************)
\* The server answers the oldest request with a burst of packets. The call
\* that made the request, if it is still waiting, notes the answer, and
\* whether it has read nothing yet and nothing else is there to be read.
Answer(burst) ==
    /\ connection = "open"
    /\ pending # <<>>
    /\ LET p == Head(pending)[1]
           c == call[p]
       IN  IF c.id = Head(pending)[2] /\ ~Quiet(p)
           THEN call' = [call EXCEPT ![p] =
                           [c EXCEPT !.reply = burst,
                                     !.clean = (stream = <<>> /\ Len(c.io) = 1)]]
           ELSE UNCHANGED call
    /\ stream' = stream \o WireAll(burst)
    /\ pending' = Tail(pending)
    /\ sent' = sent + Len(burst)
    /\ UNCHANGED << authorized, connection, calls, opened, closed, released >>

\* An answer within the packets the server sends to one session.
ServerReply(burst) ==
    /\ sent + Len(burst) <= MaxPkts
    /\ Answer(burst)

\* Caller p is about to write, or is in a read that what has arrived does
\* not satisfy.
Waiting(p) ==
    \/ call[p].pc = "write"
    \/ call[p].pc \in {"size", "challenge", "headerType"} /\ Len(stream) < 4
    \/ /\ call[p].pc \in {"discard", "body"}
       /\ BodyLen(call[p].header.size) > 0
       /\ stream = <<>>

\* The peer closes the connection: what it sent can still be read. A close
\* is seen by a write and by a read that finds too little, so it is taken
\* when a caller is at one of those; taken earlier, the steps up to there
\* are the same.
PeerClose ==
    /\ connection = "open"
    /\ \E p \in Callers : Waiting(p)
    /\ connection' = "down"
    /\ UNCHANGED << authorized, stream, pending, sent, call, calls, opened,
                    closed, released >>

(***************************************************************************)
(* The session driven by one caller at a time.                             *)
(***************************************************************************)
Ops == {"Authorize", "Execute"}

DoConnect == \E ok \in BOOLEAN : Connect(ok)

Inputs(op) == IF op = "Authorize" THEN Passwords ELSE Commands

DoCall ==
    \E op \in Ops :
        \E command \in Inputs(op) :
            /\ \A q \in Callers : Quiet(q)
            /\ Call(1, op, command)

DoWrite == Write(1)

DoReadHeader == ReadHeader(1)

DoDiscard == Discard(1)

DoReadBody == ReadBody(1)

DoServerReply ==
    \E n \in 1..(MaxPkts - sent) :
        \E burst \in Bursts(n) : ServerReply(burst)

Next ==
    \/ DoConnect
    \/ DoCall
    \/ DoWrite
    \/ DoReadHeader
    \/ DoDiscard
    \/ DoReadBody
    \/ Disconnect
    \/ DoServerReply
    \/ PeerClose

Spec == Init /\ [][Next]_vars

(***************************************************************************)
(* Properties of the session.                                              *)
(***************************************************************************)
\* The challenge of the request of caller p's call.
Challenge(c) == c.packet[1].Header.challenge

\* Every read of the call returned as many bytes as it asked for.
FullReads(c) ==
    \A i \in DOMAIN c.io : c.io[i][1] # "Write" => c.io[i][3] = c.io[i][2]

\* The step is the entry of caller p into Authorize or Execute.
Enters(p, op) ==
    /\ calls' = calls + 1
    /\ call'[p] # call[p]
    /\ call'[p].op = op

\* The step is a return of caller p's call.
Returns(p) ==
    /\ call'[p] # call[p]
    /\ call'[p].pc = "done"
    /\ call'[p].result = "return"

\* C1: while the session is not authorized, Execute returns
\* ErrUnauthorizedRequest and a nil response at once, and neither writes to
\* nor reads from the transport.
C1_UnauthorizedExecute ==
    [][\A p \in Callers :
         (~authorized /\ Enters(p, "Execute")) =>
            /\ call'[p].pc = "done"
            /\ call'[p].result = "return"
            /\ call'[p].err = "ErrUnauthorizedRequest"
            /\ call'[p].response = <<>>
            /\ call'[p].io = <<>>
            /\ stream' = stream
            /\ pending' = pending
            /\ connection' = connection
            /\ authorized' = authorized]_vars

C1_Witness ==
    \E p \in Callers :
        /\ call[p].op = "Execute"
        /\ call[p].pc = "done"
        /\ call[p].err = "ErrUnauthorizedRequest"
        /\ ~authorized
        /\ connection = "open"

\* C2: authorized is false at first, and a step changes it only from false
\* to true and only as the return of an Authorize call without error whose
\* evaluated header has type SERVERDATA_AUTH_RESPONSE and the id of the
\* call's challenge; every other step leaves it unchanged.
C2_AuthorizedOnlyByAuthorize ==
    /\ ~authorized
    /\ [][(authorized' # authorized) =>
            /\ ~authorized
            /\ \E p \in Callers :
                 /\ call[p].op = "Authorize"
                 /\ Returns(p)
                 /\ call'[p].err = "nil"
                 /\ call'[p].evaluated
                 /\ call'[p].header.headerType = authResponse
                 /\ call'[p].header.challenge = Challenge(call[p])
                 /\ call'[p].response # <<>>]_vars

C2_Witness ==
    /\ authorized
    /\ \E p \in Callers :
         /\ call[p].op = "Authorize"
         /\ call[p].pc = "done"
         /\ call[p].err = "nil"

\* C3: once authorized is true it stays true whatever calls follow and
\* however they end, and no call returns ErrUnauthorizedRequest any more.
C3_AuthorizedMonotonic ==
    [][authorized =>
         /\ authorized'
         /\ \A p \in Callers :
              Returns(p) => call'[p].err # "ErrUnauthorizedRequest"]_vars

C3_Witness ==
    /\ authorized
    /\ \E p \in Callers :
         /\ call[p].op = "Authorize"
         /\ call[p].pc = "done"
         /\ call[p].err = "ErrFailedAuthorization"

\* The replies of a compliant server that rejects the password of an AUTH
\* request with challenge X: the Valve protocol's SERVERDATA_AUTH_RESPONSE
\* with id -1, alone or after the empty SERVERDATA_RESPONSE_VALUE.
Rejections(X) ==
    { << Framed(-1, authResponse, <<>>) >>,
      << Framed(X, responseValue, <<>>), Framed(-1, authResponse, <<>>) >> }

\* C4: the first Authorize of a session that a compliant server rejects,
\* with its reply read in full from a connection in step, returns
\* ErrFailedAuthorization and leaves authorized false.
C4_RejectedAuthorize ==
    \A p \in Callers :
        LET c == call[p]
        IN  ( /\ c.op = "Authorize"
              /\ c.pc = "done"
              /\ c.id = 1
              /\ c.clean
              /\ FullReads(c)
              /\ c.reply \in Rejections(Challenge(c)) )
            => /\ c.result = "return"
               /\ c.err = "ErrFailedAuthorization"
               /\ c.response = <<>>
               /\ ~authorized

\* The reply of the quirk: an empty SERVERDATA_RESPONSE_VALUE and then the
\* SERVERDATA_AUTH_RESPONSE, both with the challenge X.
QuirkReply(X) ==
    << Framed(X, responseValue, <<>>), Framed(X, authResponse, <<>>) >>

\* C5: an Authorize answered by [type 0, size 10, id X] and then
\* [type 2, size 10, id X], with every read delivered in full, reads both
\* packets to their ends, returns the second one without error and sets
\* authorized.
C5_AuthQuirk ==
    \A p \in Callers :
        LET c == call[p]
        IN  ( /\ c.op = "Authorize"
              /\ c.pc = "done"
              /\ c.clean
              /\ FullReads(c)
              /\ c.reply = QuirkReply(Challenge(c)) )
            => /\ c.result = "return"
               /\ c.err = "nil"
               /\ c.response =
                    << [Header |-> Header(10, Challenge(c), authResponse),
                        Body |-> <<>>] >>
               /\ c.first = << Header(10, Challenge(c), responseValue) >>
               /\ authorized
               /\ Len(c.io) = 9
               /\ stream = <<>>

C5_Witness ==
    \E p \in Callers :
        /\ call[p].op = "Authorize"
        /\ call[p].pc = "done"
        /\ call[p].clean
        /\ FullReads(call[p])
        /\ call[p].reply = QuirkReply(Challenge(call[p]))
        /\ call[p].err = "nil"
        /\ authorized

\* The evaluated header of the call carries another id than the request.
Mismatched(c) == c.evaluated /\ c.header.challenge # Challenge(c)

\* C6: a call whose evaluated response header carries an id other than the
\* request's challenge returns ErrInvalidChallenge and a nil response
\* without reading a body, whatever the header's type, and the step that
\* decodes that header leaves authorized as it was.
C6_InvalidChallenge ==
    /\ [](\A p \in Callers :
            Mismatched(call[p]) =>
               /\ call[p].pc = "done"
               /\ call[p].result = "return"
               /\ call[p].err = "ErrInvalidChallenge"
               /\ call[p].response = <<>>
               /\ call[p].body = <<>>)
    /\ [][\A p \in Callers :
            (~call[p].evaluated /\ Mismatched(call'[p]))
               => authorized' = authorized]_vars

C6_Witness ==
    \E p \in Callers :
        /\ Mismatched(call[p])
        /\ call[p].op = "Authorize"
        /\ call[p].header.headerType = authResponse
        /\ call[p].err = "ErrInvalidChallenge"

\* C8: once the caller has disconnected a session on which Connect opened
\* one transport, that transport has been closed exactly once.
C8_DisconnectCloses ==
    (released /\ opened = 1) => closed = 1

\* C9: a call returns either a response and no error, or an error and no
\* response.
C9_NoPartialSuccess ==
    \A p \in Callers :
        (call[p].pc = "done" /\ call[p].result = "return") =>
            \/ call[p].response # <<>> /\ call[p].err = "nil"
            \/ call[p].response = <<>> /\ call[p].err # "nil"

C9_Witness ==
    \E p \in Callers :
        /\ call[p].pc = "done"
        /\ call[p].result = "return"
        /\ call[p].err = "ErrFailedAuthorization"
        /\ call[p].first # <<>>

\* The packet of the server's reply that the call evaluated, when the call
\* read a reply the server framed, from its start, in full reads.
InStep(c) ==
    /\ c.clean
    /\ FullReads(c)
    /\ Len(c.reply) >= c.round
    /\ \A i \in 1..c.round : c.reply[i].size = Len(c.reply[i].data) + 8

Zeros(k) == [i \in 1..k |-> 0]

\* C10: a response returned without error carries the evaluated header,
\* whose id is the challenge of the call's request, and as body the bytes
\* read after that header less every trailing NUL: it does not end in NUL,
\* and it is the server's body less its trailing NULs.
C10_ResponseOfRequest ==
    \A p \in Callers :
        LET c == call[p]
        IN  (c.pc = "done" /\ c.result = "return" /\ c.err = "nil") =>
               LET r == c.response[1]
               IN  /\ r.Header = c.header
                   /\ r.Header.challenge = Challenge(c)
                   /\ (r.Body = <<>> \/ r.Body[Len(r.Body)] # 0)
                   /\ \E k \in 0..Len(c.body) : c.body = r.Body \o Zeros(k)
                   /\ Len(c.body) = c.header.size - 8
                   /\ InStep(c) =>
                        r.Body = TrimRight(c.reply[c.round].body, {0})

C10_Witness ==
    \E p \in Callers :
        /\ call[p].op = "Execute"
        /\ call[p].pc = "done"
        /\ call[p].err = "nil"
        /\ InStep(call[p])
        /\ call[p].response[1].Body = <<97>>
        /\ call[p].body = <<97, 0, 0>>

\* The call got past the check of line 109: it has a request packet.
Passed(c) == c.packet # <<>>

\* The writes of the call, the header fields it decoded, and its reads of
\* a body (discarded or kept).
Writes(c) == Cardinality({i \in DOMAIN c.io : c.io[i][1] = "Write"})
Fields(c) ==
    Cardinality({i \in DOMAIN c.io : c.io[i][1] = "ReadFull" /\ c.io[i][3] = 4})
BodyReads(c) == Cardinality({i \in DOMAIN c.io : c.io[i][1] = "Read"})

\* The request is an AUTH and the first header decoded has type 0.
SpuriousFirst(c) ==
    /\ Passed(c)
    /\ c.packet[1].Header.headerType = auth
    /\ c.first # <<>>
    /\ c.first[1].headerType = responseValue

\* C11 as stated: every call that got past the authorization check has, when
\* it ends, written exactly once and decoded exactly one header, or exactly
\* two when and only when the request is an AUTH and the first header has
\* type 0.
C11_OneWriteOneOrTwoHeaders ==
    \A p \in Callers :
        LET c == call[p]
        IN  (c.pc = "done" /\ Passed(c)) =>
               /\ Writes(c) = 1
               /\ c.io[1][1] = "Write"
               /\ Fields(c) = IF SpuriousFirst(c) THEN 6 ELSE 3

\* C11, amended: a call past the authorization check writes at most once
\* and before any read, and exactly once unless the connection is nil and
\* the write panics; it decodes at most two headers and reads at most two
\* bodies, a second header only for an AUTH whose first header has type 0;
\* a call that evaluated a header decoded exactly one, or exactly two when
\* and only when the request is an AUTH and the first header has type 0;
\* and no request is issued while a call is in progress.
C11_OneWriteThenReads ==
    /\ \A p \in Callers :
          LET c == call[p]
          IN  Passed(c) =>
                /\ Writes(c) <= 1
                /\ \A i \in DOMAIN c.io : (c.io[i][1] = "Write") <=> (i = 1)
                /\ (c.pc = "done" /\ Writes(c) = 0) =>
                      (c.result = "panic" /\ connection = "nil")
                /\ c.pc \notin {"write", "done"} => Writes(c) = 1
                /\ Fields(c) <= 6
                /\ BodyReads(c) <= 2
                /\ Len(c.io) <= 9
                /\ c.round = 2 => (SpuriousFirst(c) /\ Fields(c) >= 3)
                /\ c.evaluated =>
                      Fields(c) = IF SpuriousFirst(c) THEN 6 ELSE 3
                /\ ~Quiet(p) => c.id = calls
    /\ \A p, q \in Callers : (~Quiet(p) /\ ~Quiet(q)) => p = q

C11_Witness ==
    \E p \in Callers :
        LET c == call[p]
        IN  /\ c.pc = "done"
            /\ c.op = "Authorize"
            /\ c.err = "nil"
            /\ Writes(c) = 1
            /\ Fields(c) = 6
            /\ BodyReads(c) = 2
            /\ calls = 2

\* C12: a second header is read only by an AUTH request; an Execute that
\* got past the authorization check never discards a packet, evaluates the
\* first header it decodes whatever its type, and, when that header has
\* the id of the request and the body read is delivered in full, returns
\* it as the header of a response without error, whatever its type.
C12_ExecuteFirstHeader ==
    \A p \in Callers :
        LET c == call[p]
        IN  /\ (Passed(c) /\ (c.round = 2 \/ c.pc = "discard")) =>
                  c.packet[1].Header.headerType = auth
            /\ (Passed(c) /\ c.op = "Execute") =>
                  /\ c.packet[1].Header.headerType = exec
                  /\ c.round = 1
                  /\ c.pc # "discard"
                  /\ BodyReads(c) <= 1
                  /\ Fields(c) <= 3
                  /\ c.first # <<>> =>
                        /\ c.evaluated
                        /\ c.header = c.first[1]
                  /\ ( /\ c.pc = "done"
                       /\ c.result = "return"
                       /\ c.first # <<>>
                       /\ c.first[1].challenge = Challenge(c)
                       /\ FullReads(c) ) =>
                        /\ c.err = "nil"
                        /\ c.response[1].Header = c.first[1]

C12_Witness ==
    \E p \in Callers :
        LET c == call[p]
        IN  /\ c.op = "Execute"
            /\ c.pc = "done"
            /\ c.err = "nil"
            /\ c.response # <<>>
            /\ c.response[1].Header.headerType = responseValue
            /\ c.response[1].Header.size = 10
            /\ Fields(c) = 3
            /\ BodyReads(c) = 1

\* C14: the first transport operation of a call is the write of its
\* payload of size + 4 bytes. When that write reports an error the call
\* returns that error, and when it reports fewer bytes and no error the call
\* returns ErrInvalidWrite, each time with a nil response and without
\* another transport operation; the step that ends the call at its write
\* changes neither authorized nor what there is to be read.
C14_InvalidWrite ==
    /\ [](\A p \in Callers :
            LET c == call[p]
            IN  (Passed(c) /\ c.io # <<>>) =>
                   LET w == c.io[1]
                   IN  /\ w[1] = "Write"
                       /\ w[2] = Len(c.payload)
                       /\ w[2] = c.packet[1].Header.size + 4
                       /\ w[4] # "nil" =>
                             /\ c.pc = "done"
                             /\ c.result = "return"
                             /\ c.err = w[4]
                             /\ c.response = <<>>
                             /\ Len(c.io) = 1
                       /\ (w[4] = "nil" /\ w[3] < w[2]) =>
                             /\ c.pc = "done"
                             /\ c.result = "return"
                             /\ c.err = "ErrInvalidWrite"
                             /\ c.response = <<>>
                             /\ Len(c.io) = 1)
    /\ [][\A p \in Callers :
            (call[p].pc = "write" /\ call'[p].pc = "done") =>
               /\ authorized' = authorized
               /\ stream' = stream
               /\ pending' = pending]_vars

C14_Witness ==
    \E p \in Callers :
        LET c == call[p]
        IN  /\ c.op = "Execute"
            /\ c.pc = "done"
            /\ c.err = "ErrInvalidWrite"
            /\ c.io = << <<"Write", Len(c.payload), Len(c.payload) - 1, "nil">> >>
            /\ authorized

\* The packets of an answer from the k-th on.
From(burst, k) == SubSeq(burst, k, Len(burst))

\* s begins with t.
Prefix(t, s) == Len(t) <= Len(s) /\ Take(s, Len(t)) = t

\* The call ended with ErrInvalidChallenge.
Challenged(c) == c.pc = "done" /\ c.err = "ErrInvalidChallenge"

\* C16: a call that ends with ErrInvalidChallenge has read no body after the
\* header it evaluated, and nothing is closed. When it read a framed answer
\* in step, what is left to be read begins with the size - 8 bytes after
\* that header, and is at the start of a packet only if size = 8. The next
\* call on the connection finds just these bytes, still has them before it
\* when it starts to read, and decodes the size of its response header
\* from the first four of the bytes then before it.
C16_LeftoverBody ==
    /\ [](\A p \in Callers :
            LET c == call[p]
            IN  /\ Challenged(c) =>
                      /\ Mismatched(c)
                      /\ c.body = <<>>
                      /\ c.response = <<>>
                      /\ c.io[Len(c.io)] = <<"ReadFull", 4, 4, "nil">>
                      /\ BodyReads(c) = c.round - 1
                      /\ closed = 0
                      /\ connection # "nil"
                      /\ (InStep(c) /\ calls = c.id) =>
                            LET pkt == c.reply[c.round]
                            IN  /\ stream = pkt.data
                                       \o WireAll(From(c.reply, c.round + 1))
                                /\ Len(pkt.data) = c.header.size - packetHeaderSize
                                /\ pkt.data = <<>> <=> c.header.size = 8
                                /\ pending = <<>>
                /\ (Passed(c) /\ c.pc \in {"write", "size"} /\ Len(c.io) <= 1) =>
                      Prefix(c.left, stream))
    /\ [][\A p \in Callers :
            /\ ( /\ call[p].pc = "size"
                 /\ call[p].round = 1
                 /\ call'[p].pc = "challenge" ) =>
                  /\ Prefix(call[p].left, stream)
                  /\ call'[p].header.size = Int32(Take(stream, 4))
                  /\ stream' = Drop(stream, 4)
            /\ \A q \in Callers :
                  ( /\ Challenged(call[p])
                    /\ calls = call[p].id
                    /\ \E op \in Ops : Enters(q, op)
                    /\ Passed(call'[q]) ) =>
                  /\ call'[q].left = stream
                  /\ stream' = stream
                  /\ connection' = connection]_vars

\* The second call of a session found the two bytes its predecessor left
\* and took them and the first two bytes of its answer for a size.
C16_Witness ==
    \E p \in Callers :
        LET c == call[p]
        IN  /\ c.id = 2
            /\ c.prev = "ErrInvalidChallenge"
            /\ c.left = <<0, 0>>
            /\ c.reply # <<>>
            /\ c.reply[1].size = 10
            /\ c.first # <<>>
            /\ c.first[1].size = 655360
            /\ c.pc = "done"

\* C17: the discarding read asks for the first header's size - 8 bytes, and
\* whatever it returns, fewer bytes or an error, the call goes on without an
\* error to decode a second header, each field from the four bytes that
\* are next in the connection; the id of the first header is not compared
\* with the challenge: no call ends or is marked by the discard, and a call
\* that discarded ends with ErrInvalidChallenge only for the id of its
\* second header.
C17_DiscardIgnored ==
    /\ [](\A p \in Callers :
            LET c == call[p]
            IN  /\ c.pc = "discard" =>
                      /\ SpuriousFirst(c)
                      /\ c.header = c.first[1]
                      /\ ~c.evaluated
                      /\ c.err = "nil"
                      /\ c.result = "none"
                /\ (Passed(c) /\ c.round = 2) =>
                      /\ c.io[5][1] = "Read"
                      /\ c.io[5][2] = c.first[1].size - packetHeaderSize
                      /\ c.io[5][2] >= 0
                      /\ Challenged(c) => c.header.challenge # Challenge(c)
                      /\ (c.evaluated /\ c.header.challenge = Challenge(c)) =>
                            c.err # "ErrInvalidChallenge")
    /\ [][\A p \in Callers :
            /\ (call[p].pc = "discard" /\ call'[p].pc # "discard") =>
                  \/ /\ call'[p].result = "panic"
                     /\ call[p].header.size < packetHeaderSize
                     /\ stream' = stream
                  \/ /\ call'[p].pc = "size"
                     /\ call'[p].round = 2
                     /\ call'[p].err = "nil"
                     /\ call'[p].result = "none"
                     /\ call'[p].response = <<>>
                     /\ stream' = Drop(stream, call'[p].io[5][3])
                     /\ authorized' = authorized
            /\ ( /\ call[p].round = 2
                 /\ call[p].pc \in {"size", "challenge", "headerType"}
                 /\ call'[p].io # call[p].io
                 /\ Len(stream) >= 4 ) =>
                  /\ call'[p].header[call[p].pc] = Int32(Take(stream, 4))
                  /\ stream' = Drop(stream, 4)]_vars

\* The discard of two bytes returned one; the second header was decoded
\* one byte before the next packet, after a first header with another id
\* than the challenge.
C17_Witness ==
    \E p \in Callers :
        LET c == call[p]
        IN  /\ Passed(c)
            /\ c.round = 2
            /\ c.clean
            /\ c.io[5] = <<"Read", 2, 1, "nil">>
            /\ c.first[1].challenge # Challenge(c)
            /\ c.evaluated
            /\ c.header.size = 2560
            /\ c.pc = "done"

\* The call evaluated a header with the id of its challenge and returned.
Matched(c) ==
    /\ c.evaluated
    /\ c.header.challenge = Challenge(c)
    /\ c.pc = "done"
    /\ c.result = "return"

\* C15: a call that returns after evaluating a header with the id of its
\* challenge has asked for size - 8 bytes in one read, its last transport
\* operation and its only read of a body besides the discard; when that
\* read returns fewer bytes and no error the call returns ErrInvalidRead
\* and a nil response, whatever else there is or will be to read, and when
\* it returns an error the call returns that error; the return of
\* ErrInvalidRead leaves authorized as it was.
C15_InvalidRead ==
    /\ [](\A p \in Callers :
            LET c == call[p]
            IN  Matched(c) =>
                   LET r == c.io[Len(c.io)]
                   IN  /\ r[1] = "Read"
                       /\ r[2] = c.header.size - packetHeaderSize
                       /\ r[2] >= 0
                       /\ BodyReads(c) = c.round
                       /\ Len(c.body) = r[3]
                       /\ (r[4] = "nil" /\ r[3] < r[2]) =>
                             /\ c.err = "ErrInvalidRead"
                             /\ c.response = <<>>
                       /\ r[4] # "nil" =>
                             /\ c.err = r[4]
                             /\ c.response = <<>>
                       /\ (r[4] = "nil" /\ r[3] = r[2]) =>
                             c.err \in {"nil", "ErrFailedAuthorization"})
    /\ [][\A p \in Callers :
            (Returns(p) /\ call'[p].err = "ErrInvalidRead")
               => authorized' = authorized]_vars

\* The read of a body of two bytes returned one of them; the other one is
\* still there to be read.
C15_Witness ==
    \E p \in Callers :
        LET c == call[p]
        IN  /\ c.op = "Authorize"
            /\ Matched(c)
            /\ c.header = Header(10, Challenge(c), authResponse)
            /\ c.io[Len(c.io)] = <<"Read", 2, 1, "nil">>
            /\ c.err = "ErrInvalidRead"
            /\ c.clean
            /\ stream = <<0>>
            /\ ~authorized

(***************************************************************************)
(* The codec on its own: an authorized session whose peer sends every      *)
(* request back as it received it, so that the read path of send decodes   *)
(* what Packet.compile encoded.                                            *)
(***************************************************************************)
CodecBytes == {0, 97, 255}

CodecBodies == UNION {[1..n -> CodecBytes] : n \in 0..MaxLen}

InitCodec ==
    /\ authorized = TRUE
    /\ connection = "open"
    /\ stream = <<>>
    /\ pending = <<>>
    /\ sent = 0
    /\ call = [p \in Callers |-> IdleCall]
    /\ calls = 0
    /\ opened = 1
    /\ closed = 0
    /\ released = FALSE

CodecCall ==
    \E op \in Ops :
        \E body \in CodecBodies :
            /\ calls = 0
            /\ Call(1, op, body)

\* The peer sends the oldest request back, byte for byte.
Echo ==
    /\ connection = "open"
    /\ pending # <<>>
    /\ LET p == Head(pending)[1]
       IN  /\ call[p].id = Head(pending)[2]
           /\ stream' = stream \o call[p].payload
           /\ call' = [call EXCEPT ![p] =
                         [@ EXCEPT !.clean = (stream = <<>>)]]
    /\ pending' = Tail(pending)
    /\ UNCHANGED << authorized, connection, sent, calls, opened, closed,
                    released >>

NextCodec ==
    \/ CodecCall
    \/ DoWrite
    \/ Echo
    \/ DoReadHeader
    \/ DoReadBody

SpecCodec == InitCodec /\ [][NextCodec]_vars

\* The call of caller p decoded, without error, the echo of its request.
Decoded(c) ==
    /\ c.pc = "done"
    /\ c.result = "return"
    /\ c.op = "Execute"
    /\ c.err = "nil"

\* C7 as stated: the packet decoded from the encoding of a packet built for
\* a body B of length N has the body B and the size N + 10, for every B.
C7_RoundTripAllBodies ==
    \A p \in Callers :
        LET c == call[p]
            B == c.packet[1].Body
        IN  Decoded(c) =>
               /\ c.response[1].Body = B
               /\ c.response[1].Header.size = Len(B) + 10

\* C7, amended: the decoded size is N + 10 and the bytes read after the
\* header are B and two NULs, for every B; the decoded body is B less its
\* trailing NULs, which is B when B does not end in NUL.
C7_RoundTrip ==
    \A p \in Callers :
        LET c == call[p]
            B == c.packet[1].Body
        IN  Decoded(c) =>
               LET r == c.response[1]
               IN  /\ r.Header.size = Len(B) + 10
                   /\ r.Header = c.packet[1].Header
                   /\ c.body = B \o <<0, 0>>
                   /\ \E k \in 0..Len(B) : B = r.Body \o Zeros(k)
                   /\ (r.Body = <<>> \/ r.Body[Len(r.Body)] # 0)
                   /\ (B = <<>> \/ B[Len(B)] # 0) => r.Body = B

C7_Witness ==
    \E p \in Callers :
        /\ Decoded(call[p])
        /\ call[p].packet[1].Body = <<0, 97, 0>>
        /\ call[p].response[1].Body = <<0, 97>>
        /\ call[p].response[1].Header.size = 13

(***************************************************************************)
(* Sessions whose calls are made by either caller, one at a time or at     *)
(* once, on a connection that is open.                                     *)
(***************************************************************************)
\* The client after NewClient and a Connect that succeeded.
InitOpen ==
    /\ authorized = FALSE
    /\ connection = "open"
    /\ stream = <<>>
    /\ pending = <<>>
    /\ sent = 0
    /\ call = [p \in Callers |-> IdleCall]
    /\ calls = 0
    /\ opened = 1
    /\ closed = 0
    /\ released = FALSE

\* The callers take turns, and make a call when no call is in progress.
SerialCall ==
    \E op \in Ops :
        \E command \in Inputs(op) :
            /\ \A q \in Callers : Quiet(q)
            /\ calls < MaxTurns
            /\ Call(1 + (calls % 2), op, command)

StepWrite == \E p \in Callers : Write(p)

StepReadHeader == \E p \in Callers : ReadHeader(p)

StepDiscard == \E p \in Callers : Discard(p)

StepReadBody == \E p \in Callers : ReadBody(p)

(***************************************************************************)
(* A server that puts empty SERVERDATA_RESPONSE_VALUE packets before its   *)
(* SERVERDATA_AUTH_RESPONSE.                                               *)
(***************************************************************************)
\* n empty packets of type 0 and then the packet of type 2, all with id X.
Spurious(n, X) ==
    [i \in 1..(n + 1) |->
        IF i <= n THEN Framed(X, responseValue, <<>>)
        ELSE Framed(X, authResponse, <<>>)]

SpuriousReply == 
    \E n \in 0..MaxSpurious :
        \E X \in Ids : Answer(Spurious(n, X))

NextSpurious ==
    \/ SerialCall
    \/ StepWrite
    \/ StepReadHeader
    \/ StepDiscard
    \/ StepReadBody
    \/ SpuriousReply

SpecSpurious == InitOpen /\ [][NextSpurious]_vars

\* The bytes of the SERVERDATA_AUTH_RESPONSE with id X.
RealAuth(X) == Wire(Framed(X, authResponse, <<>>))

\* The call is an Authorize that has ended, answered by two empty packets
\* of type 0 and the packet of type 2, all with the id of its challenge,
\* and read in step.
Desynced(c) ==
    /\ c.op = "Authorize"
    /\ c.pc = "done"
    /\ c.clean
    /\ FullReads(c)
    /\ c.reply = Spurious(2, Challenge(c))

\* C13: a call discards at most one packet. An Authorize answered by two
\* packets of type 0 and then the packet of type 2, all with the id of its
\* challenge, evaluates the second packet of type 0 and returns
\* ErrFailedAuthorization without a response and without a change of
\* authorized; the packet of type 2 is left unread, is what the next request
\* on the connection finds there when it is made, and is the header that
\* request decodes and evaluates: with the id of the next request's
\* challenge it is returned as its response (and authorizes, for an
\* Authorize), with another id the next request fails with
\* ErrInvalidChallenge.
C13_SecondSpuriousPacket ==
    /\ [](\A p \in Callers :
            LET c == call[p]
                X == Challenge(c)
            IN  /\ Passed(c) =>
                      /\ c.round \in {1, 2}
                      /\ c.round = 2 => c.pc # "discard"
                      /\ BodyReads(c) <= c.round
                /\ Desynced(c) =>
                      /\ c.result = "return"
                      /\ c.err = "ErrFailedAuthorization"
                      /\ c.response = <<>>
                      /\ c.round = 2
                      /\ c.first = << Header(10, X, responseValue) >>
                      /\ c.evaluated
                      /\ c.header = Header(10, X, responseValue)
                      /\ calls = 1 => ~authorized
                      /\ calls = c.id =>
                            /\ stream = RealAuth(X)
                            /\ pending = <<>>
                      /\ \A q \in Callers \ {p} :
                            LET d == call[q]
                            IN  (d.id = c.id + 1 /\ Passed(d)) =>
                                  /\ d.left = RealAuth(X)
                                  /\ d.first # <<>> =>
                                        /\ d.first[1] = Header(10, X, authResponse)
                                        /\ d.evaluated
                                        /\ d.header = d.first[1]
                                  /\ (d.pc = "done" /\ d.first # <<>>) =>
                                        IF Challenge(d) # X
                                        THEN d.err = "ErrInvalidChallenge"
                                        ELSE FullReads(d) =>
                                               /\ d.err = "nil"
                                               /\ d.response[1].Header = d.first[1]
                                               /\ d.op = "Authorize" => authorized)
    /\ [][\A p \in Callers :
            /\ (Returns(p) /\ call'[p].err = "ErrFailedAuthorization")
                  => authorized' = authorized
            /\ \A q \in Callers :
                  ( /\ Desynced(call[p])
                    /\ calls = call[p].id
                    /\ \E op \in Ops : Enters(q, op)
                    /\ Passed(call'[q]) )
                  => /\ call'[q].left = RealAuth(Challenge(call[p]))
                     /\ stream' = stream]_vars

C13_Witness ==
    /\ Desynced(call[1])
    /\ call[1].id = 1
    /\ Challenge(call[1]) = 7
    /\ call[2].id = 2
    /\ call[2].op = "Authorize"
    /\ call[2].pc = "done"
    /\ call[2].left = RealAuth(7)
    /\ call[2].first = << Header(10, 7, authResponse) >>
    /\ call[2].err = "ErrInvalidChallenge"
    /\ ~authorized

(***************************************************************************)
(* A server that answers with packets of every kind of size field.         *)
(***************************************************************************)
\* The size fields: the least int32 values, whose difference with 8 wraps,
\* the values below 8, 8 itself, and the size of an empty packet.
Sizes == {MinInt32, MinInt32 + 7, MinInt32 + 8, -1, 7, 8, 10}

\* A packet with the size field given and two bytes after its header.
Sized(size, id, typ) ==
    [size |-> size, id |-> id, typ |-> typ, body |-> <<>>, data |-> <<0, 0>>]

SizeReply ==
    \E size \in Sizes :
        \E id \in Ids :
            \E typ \in {responseValue, authResponse} :
                Answer(<< Sized(size, id, typ) >>)

NextSizes ==
    \/ SerialCall
    \/ StepWrite
    \/ StepReadHeader
    \/ StepDiscard
    \/ StepReadBody
    \/ SizeReply
    \/ PeerClose

SpecSizes == InitOpen /\ [][NextSizes]_vars

\* The size is one whose difference with 8 is a negative int32.
Negative(size) == MinInt32 + packetHeaderSize <= size /\ size < packetHeaderSize

\* The call has ended and had a size below 8 in the header it evaluated or
\* in the header of the packet it took for spurious.
SizeBelowHeader(c) ==
    /\ c.pc = "done"
    /\ \/ c.evaluated /\ c.header.size < packetHeaderSize
       \/ SpuriousFirst(c) /\ c.first[1].size < packetHeaderSize

\* C18 as stated: a call with a size below 8 in its evaluated header or in
\* the header of its spurious packet ends in a panic.
C18_UndersizedPanics ==
    \A p \in Callers : SizeBelowHeader(call[p]) => call[p].result = "panic"

\* C18, amended: the size is used as it was decoded. A spurious header, or
\* an evaluated header with the id of the challenge, whose size less 8 is a
\* negative int32 ends the call with a panic at the allocation: nothing is
\* read for it, and neither a response nor an error is returned. A call on
\* an open connection panics in no other case: not for a size of 8 or
\* more, not for an evaluated header with another id, which gives
\* ErrInvalidChallenge whatever its size, and not for one of the least
\* eight int32 values, whose difference with 8 wraps to a positive length
\* that is asked for in the read.
C18_SizeNotValidated ==
    \A p \in Callers :
        LET c == call[p]
        IN  c.pc = "done" =>
              /\ c.result = "panic" =>
                    /\ c.header.size < packetHeaderSize
                    /\ Negative(c.header.size)
                    /\ BodyLen(c.header.size) < 0
                    /\ c.first # <<>>
                    /\ c.evaluated => c.header.challenge = Challenge(c)
                    /\ ~c.evaluated => (SpuriousFirst(c) /\ c.round = 1)
                    /\ c.response = <<>>
                    /\ c.err = "nil"
                    /\ c.io[Len(c.io)][1] = "ReadFull"
              /\ (SpuriousFirst(c) /\ Negative(c.first[1].size)) =>
                    (c.result = "panic" /\ c.round = 1)
              /\ (c.evaluated /\ c.header.challenge = Challenge(c)
                     /\ Negative(c.header.size)) =>
                    c.result = "panic"
              /\ Mismatched(c) =>
                    (c.result = "return" /\ c.err = "ErrInvalidChallenge")
              /\ (c.evaluated /\ c.header.challenge = Challenge(c)
                     /\ c.header.size < MinInt32 + packetHeaderSize) =>
                    /\ c.result = "return"
                    /\ c.io[Len(c.io)][1] = "Read"
                    /\ c.io[Len(c.io)][2] = (c.header.size - MinInt32) + 2147483640
                    /\ c.err # "nil"
              /\ (c.first # <<>> /\ c.header.size >= packetHeaderSize) =>
                    c.result = "return"

C18_Witness ==
    \E p \in Callers :
        LET c == call[p]
        IN  /\ c.op = "Execute"
            /\ c.pc = "done"
            /\ c.result = "panic"
            /\ c.evaluated
            /\ c.header = Header(7, Challenge(c), responseValue)
            /\ c.response = <<>>
            /\ c.err = "nil"
            /\ Len(stream) = 2

(***************************************************************************)
(* Two callers that each run one Execute on one authorized session,        *)
(* without waiting for each other, and a server that answers the requests  *)
(* in order, each with the id of the request and the command as the text.  *)
(***************************************************************************)
ConcCall ==
    \E p \in Callers :
        \E command \in Commands :
            /\ call[p].pc = "idle"
            /\ Call(p, "Execute", command)

\* The answer to the request of call c.
EchoOf(c) == << Framed(Challenge(c), responseValue, c.packet[1].Body) >>

\* The server answers the oldest request.
ServerEcho ==
    /\ pending # <<>>
    /\ Answer(EchoOf(call[Head(pending)[1]]))

NextConc ==
    \/ ConcCall
    \/ StepWrite
    \/ StepReadHeader
    \/ StepReadBody
    \/ ServerEcho

\* The session starts authorized and connected, as the codec's does.
SpecConc == InitCodec /\ [][NextConc]_vars

\* At most one call is in progress.
Serialized == \A p, q \in Callers : (~Quiet(p) /\ ~Quiet(q)) => p = q

\* A call that found nothing left unread, was answered before it read and
\* had its reads delivered in full returned the answer to its own request.
OwnResponse(c) ==
    ( /\ Passed(c)
      /\ c.pc = "done"
      /\ c.left = <<>>
      /\ c.clean
      /\ FullReads(c)
      /\ c.reply = EchoOf(c) ) =>
    /\ c.result = "return"
    /\ c.err = "nil"
    /\ c.response =
          << [Header |-> Header(Len(c.packet[1].Body) + 10, Challenge(c),
                                responseValue),
              Body |-> c.packet[1].Body] >>

\* C19: in a session whose calls never overlap, every call answered in
\* order by the server and read in full returns the response to its own
\* request.
C19_SerializedOwnResponse ==
    ([]Serialized) => [](\A p \in Callers : OwnResponse(call[p]))

\* Both callers were in send at once; caller 2 read the header of the answer
\* to caller 1's request, which has another id, and failed with
\* ErrInvalidChallenge; caller 1 went on reading in the middle of its
\* answer.
C19_Witness ==
    /\ call[1].id = 1
    /\ call[2].id = 2
    /\ Challenge(call[1]) # Challenge(call[2])
    /\ call[1].reply = EchoOf(call[1])
    /\ call[2].pc = "done"
    /\ call[2].err = "ErrInvalidChallenge"
    /\ call[2].io[1][3] = call[2].io[1][2]
    /\ call[2].first = << Header(call[1].reply[1].size, Challenge(call[1]),
                                 responseValue) >>
    /\ call[1].pc = "challenge"
    /\ call[1].header.size = 655360

=============================================================================
